---- MODULE Spec2Model ----
(***************************************************************************)
(* Airport weather dashboard (Sunnywslau/GetAirportWeather).               *)
(*                                                                         *)
(* The module models                                                       *)
(*   - weather.py  find_surrounding_weather_reports (the window selector), *)
(*   - main.py     main(): the Streamlit script run, its session state,    *)
(*                 the time resolver and the representative value logic,   *)
(*   - utils.py    the UTC/local conversions,                              *)
(*   - Get_BBC_wx.py  the standalone script's button handler.              *)
(*                                                                         *)
(* Sequences are 1-based here; Python lists and pandas labels are 0-based. *)
(***************************************************************************)
EXTENDS Integers, Sequences, FiniteSets, TLC

VARIABLES
    weather_data,   \* SpecSel: the payload handed to the selector
    target_time,    \* SpecSel: the target handed to the selector
    sel_out,        \* SpecSel: what the selector returned (or NotCalled)
    now,            \* environment: what datetime.utcnow() returns
    feed,           \* environment: the JSON document the forecast provider serves
    airport_widget, \* main.py: text of the airport text_input (raw, not upper-cased)
    utc_widget,     \* main.py: text of the UTC time text_input
    session,        \* main.py: st.session_state
    out,            \* main.py: what the last script run rendered
    conv,           \* SpecConv: an instant, an offset and the two conversions of it
    lookup,         \* SpecLookup: a lookup table, a code and what get_weather_data returned
    scan,           \* SpecScan: the selector's loop position, locals and calls made
    bbc_out,        \* Get_BBC_wx.py: what the last script run rendered
    wind            \* SpecWind: a wind text, a component value and what was made of them

vars == <<weather_data, target_time, sel_out, now, feed,
          airport_widget, utc_widget, session, out, conv, lookup, scan, bbc_out, wind>>

(***************************************************************************)
(* datetime: the part of Python's datetime the program uses.               *)
(***************************************************************************)
DateTime(y, mo, d, h, mi, s, us) ==
    [year |-> y, month |-> mo, day |-> d, hour |-> h, minute |-> mi,
     second |-> s, microsecond |-> us]

IsLeap(y) == (y % 4 = 0) /\ ((y % 100 # 0) \/ (y % 400 = 0))

DaysInMonth(y, mo) ==
    IF mo = 2 THEN (IF IsLeap(y) THEN 29 ELSE 28)
    ELSE IF mo \in {4, 6, 9, 11} THEN 30 ELSE 31

RECURSIVE DaysBeforeMonth(_, _)
DaysBeforeMonth(y, mo) ==
    IF mo = 1 THEN 0 ELSE DaysBeforeMonth(y, mo - 1) + DaysInMonth(y, mo - 1)

\* date.toordinal(): days since 0001-01-01 (which is day 1)
ToOrdinal(y, mo, d) ==
    365 * (y - 1) + ((y - 1) \div 4) - ((y - 1) \div 100) + ((y - 1) \div 400)
    + DaysBeforeMonth(y, mo) + d

\* whole minutes since the epoch, and what is left below the minute (microseconds)
MinuteStamp(dt) ==
    (ToOrdinal(dt.year, dt.month, dt.day) * 24 + dt.hour) * 60 + dt.minute

SubMinute(dt) == dt.second * 1000000 + dt.microsecond

\* datetime.__lt__ / __le__ on naive datetimes
StampLT(am, as, bm, bs) == am < bm \/ (am = bm /\ as < bs)

DtLT(a, b) == StampLT(MinuteStamp(a), SubMinute(a), MinuteStamp(b), SubMinute(b))

DtLE(a, b) == DtLT(a, b) \/ a = b

NextDay(dt) ==
    IF dt.day < DaysInMonth(dt.year, dt.month)
    THEN [dt EXCEPT !.day = dt.day + 1]
    ELSE IF dt.month < 12
         THEN [dt EXCEPT !.day = 1, !.month = dt.month + 1]
         ELSE [dt EXCEPT !.day = 1, !.month = 1, !.year = dt.year + 1]

PrevDay(dt) ==
    IF dt.day > 1
    THEN [dt EXCEPT !.day = dt.day - 1]
    ELSE IF dt.month > 1
         THEN [dt EXCEPT !.day = DaysInMonth(dt.year, dt.month - 1),
                         !.month = dt.month - 1]
         ELSE [dt EXCEPT !.day = 31, !.month = 12, !.year = dt.year - 1]

\* dt + timedelta(days=n)
RECURSIVE AddDays(_, _)
AddDays(dt, n) ==
    IF n = 0 THEN dt
    ELSE IF n > 0 THEN AddDays(NextDay(dt), n - 1)
    ELSE AddDays(PrevDay(dt), n + 1)

\* dt + timedelta(minutes=n), n of either sign
RECURSIVE AddMinutes(_, _)
AddMinutes(dt, n) ==
    LET m == dt.hour * 60 + dt.minute + n
    IN  IF m < 0 THEN AddMinutes(PrevDay(dt), n + 1440)
        ELSE IF m >= 1440 THEN AddMinutes(NextDay(dt), n - 1440)
        ELSE [dt EXCEPT !.hour = m \div 60, !.minute = m % 60]

\* datetime.fromisoformat(localDate + 'T' + timeslot): "YYYY-MM-DD" + "T" + "HH:MM".
\* localDate is modelled as <<year, month, day>> and timeslot as <<hour, minute>>.
FromIsoFormat(localDate, timeslot) ==
    DateTime(localDate[1], localDate[2], localDate[3], timeslot[1], timeslot[2], 0, 0)

\* dt.strftime('%Y-%m-%d %H:%M'): the seconds and microseconds are dropped
StrfMinute(dt) == <<dt.year, dt.month, dt.day, dt.hour, dt.minute>>

\* pd.to_datetime / datetime.strptime of a '%Y-%m-%d %H:%M' string
ParseMinute(s) == DateTime(s[1], s[2], s[3], s[4], s[5], 0, 0)

(***************************************************************************)
(* weather.py: find_surrounding_weather_reports                            *)
(***************************************************************************)
None == [isNone |-> TRUE]

\* len(next_reports) >= 5, previous_reports[-5:], next_reports[:5]
WindowLimit == 5

\* seq[-n:]
LastN(seq, n) ==
    IF Len(seq) <= n THEN seq ELSE SubSeq(seq, Len(seq) - n + 1, Len(seq))

\* seq[:n]
FirstN(seq, n) ==
    IF Len(seq) <= n THEN seq ELSE SubSeq(seq, 1, n)

\* the loop's locals before the first iteration
SelStart == [previous_reports |-> <<>>, nearest_report |-> None, next_reports |-> <<>>]

\* the body of the inner loop up to the limit test: classify one report
ClassifyMutLE(st, detailed_report, report_time, target) ==
    IF DtLE(report_time, target)
    THEN [st EXCEPT !.previous_reports = Append(@, detailed_report)]
    ELSE [st EXCEPT
            !.nearest_report = IF @ = None THEN detailed_report ELSE @,
            !.next_reports = Append(@, detailed_report)]

ClassifyMutNearest(st, detailed_report, report_time, target) ==
    IF DtLT(report_time, target)
    THEN [st EXCEPT !.previous_reports = Append(@, detailed_report)]
    ELSE [st EXCEPT
            !.nearest_report = detailed_report,
            !.next_reports = Append(@, detailed_report)]

Classify(st, detailed_report, report_time, target) ==
    IF DtLT(report_time, target)
    THEN [st EXCEPT !.previous_reports = Append(@, detailed_report)]
    ELSE IF ~DtLT(report_time, target)      \* elif report_time >= target_time
    THEN [st EXCEPT
            !.nearest_report = IF @ = None THEN detailed_report ELSE @,
            !.next_reports = Append(@, detailed_report)]
    ELSE st

Collect(st, detailed_report, target) ==
    Classify(st, detailed_report,
             FromIsoFormat(detailed_report.localDate, detailed_report.timeslot), target)

\* "Limit to 5 reports total": the test that breaks out of both loops
LimitReachedMutTotal(st) ==
    Len(st.previous_reports) + Len(st.next_reports) >= WindowLimit

LimitReached(st) == Len(st.next_reports) >= WindowLimit

\* for detailed_report in report['detailed']['reports']: ... break
RECURSIVE InnerLoop(_, _, _, _)
InnerNext(reports, i, st1, target) ==
    IF LimitReached(st1) THEN st1 ELSE InnerLoop(reports, i + 1, st1, target)

InnerLoop(reports, i, st, target) ==
    IF i > Len(reports) THEN st
    ELSE InnerNext(reports, i, Collect(st, reports[i], target), target)

\* for report in weather_data['forecasts']: ... break
RECURSIVE OuterLoop(_, _, _, _)
OuterNext(forecasts, g, st1, target) ==
    IF LimitReached(st1) THEN st1 ELSE OuterLoop(forecasts, g + 1, st1, target)

OuterLoop(forecasts, g, st, target) ==
    IF g > Len(forecasts) THEN st
    ELSE OuterNext(forecasts, g, InnerLoop(forecasts[g].detailed.reports, 1, st, target),
                   target)

\* the two truncations after the loops
TruncateMutFirst(st) ==
    [st EXCEPT !.previous_reports = FirstN(@, WindowLimit),
               !.next_reports = FirstN(@, WindowLimit)]

Truncate(st) ==
    [st EXCEPT !.previous_reports = LastN(@, WindowLimit),
               !.next_reports = FirstN(@, WindowLimit)]

find_surrounding_weather_reports(data, target) ==
    Truncate(OuterLoop(data.forecasts, 1, SelStart, target))

(***************************************************************************)
(* Get_BBC_wx.py: find_surrounding_weather_reports.  The limit is tested   *)
(* at the head of the inner loop's body, before the report is classified.  *)
(***************************************************************************)
RECURSIVE BbcInnerLoop(_, _, _, _)
BbcInnerLoopMutEarlyLimit(reports, i, st, target) ==
    IF i > Len(reports) THEN st
    ELSE IF Len(st.next_reports) >= WindowLimit - 1 THEN st
    ELSE BbcInnerLoop(reports, i + 1, Collect(st, reports[i], target), target)

BbcInnerLoop(reports, i, st, target) ==
    IF i > Len(reports) THEN st
    ELSE IF LimitReached(st) THEN st
    ELSE BbcInnerLoop(reports, i + 1, Collect(st, reports[i], target), target)

RECURSIVE BbcOuterLoop(_, _, _, _)
BbcOuterNext(forecasts, g, st1, target) ==
    IF LimitReached(st1) THEN st1 ELSE BbcOuterLoop(forecasts, g + 1, st1, target)

BbcOuterLoop(forecasts, g, st, target) ==
    IF g > Len(forecasts) THEN st
    ELSE BbcOuterNext(forecasts, g,
                      BbcInnerLoop(forecasts[g].detailed.reports, 1, st, target), target)

BbcFindSurrounding(data, target) ==
    Truncate(BbcOuterLoop(data.forecasts, 1, SelStart, target))

(***************************************************************************)
(* Payloads.  A report carries the fields the program reads (localDate,    *)
(* timeslot, pressure, temperatureC); id is the identity of the dict       *)
(* object, which Python's lists hold by reference.                         *)
(***************************************************************************)
Report(i, localDate, timeslot, p, t) ==
    [id |-> i, localDate |-> localDate, timeslot |-> timeslot,
     pressure |-> p, temperatureC |-> t]

Group(reports) == [detailed |-> [reports |-> reports]]

\* a payload of two forecast groups: the first holds the first `cut` reports
Payload(flat, cut) ==
    [forecasts |-> <<Group(SubSeq(flat, 1, cut)), Group(SubSeq(flat, cut + 1, Len(flat)))>>,
     location |-> [name |-> "Airport"],
     lastUpdated |-> "Z"]

RECURSIVE FlattenFrom(_, _)
FlattenFrom(forecasts, g) ==
    IF g > Len(forecasts) THEN <<>>
    ELSE forecasts[g].detailed.reports \o FlattenFrom(forecasts, g + 1)

\* every report of the payload, in payload order
Flatten(data) == FlattenFrom(data.forecasts, 1)

ReportTime(r) == FromIsoFormat(r.localDate, r.timeslot)

IsSorted(flat) ==
    \A i \in 1..(Len(flat) - 1) : ~DtLT(ReportTime(flat[i + 1]), ReportTime(flat[i]))

(***************************************************************************)
(* SpecSel: the selector applied to bounded payloads and targets.          *)
(***************************************************************************)
MaxSortedLen == 12      \* longest chronologically sorted payload
MaxUnsortedLen == 6     \* longest payload in arbitrary order

SlotDate == <<2025, 1, 1>>
Slots == <<(<<6, 0>>), (<<7, 0>>), (<<8, 0>>)>>

SelTargets ==
    { DateTime(2025, 1, 1, 5, 30, 0, 0),     \* before every slot
      DateTime(2025, 1, 1, 7, 0, 0, 0),      \* equal to a slot
      DateTime(2025, 1, 1, 7, 0, 30, 0),     \* between two slots, with seconds
      DateTime(2025, 1, 1, 8, 30, 0, 0) }    \* after every slot

SelReport(i, slot) == Report(i, SlotDate, Slots[slot], 1010, 20)

\* a one, then b twos, then c threes
SortedFlat(a, b, c) ==
    [i \in 1..(a + b + c) |->
        SelReport(i, IF i <= a THEN 1 ELSE IF i <= a + b THEN 2 ELSE 3)]

SortedFlats ==
    { SortedFlat(a, b, c) : <<a, b, c>> \in
        { t \in (0..MaxSortedLen) \X (0..MaxSortedLen) \X (0..MaxSortedLen) :
            t[1] + t[2] + t[3] <= MaxSortedLen } }

UnsortedFlats ==
    UNION { { [i \in 1..n |-> SelReport(i, f[i])] : f \in [1..n -> 1..Len(Slots)] } :
            n \in 0..MaxUnsortedLen }

SelFlats == SortedFlats \cup UnsortedFlats

NotCalled == [called |-> FALSE]

\* the values the variables of main.py hold while only the selector runs
NoTime == DateTime(2025, 1, 1, 0, 0, 0, 0)
\* what a script run renders; kind "none" is a run that renders nothing
NoOut ==
    [kind |-> "none", exception |-> "none", matched |-> "none",
     time_resolved |-> FALSE, target_time |-> NoTime, local_time |-> NoTime,
     utc_offset |-> 0, selected |-> FALSE,
     previous_reports |-> <<>>, nearest_report |-> None, next_reports |-> <<>>,
     df |-> <<>>, crit_indices |-> <<>>,
     value_displayed |-> FALSE, pressure_value |-> 0, temperature_value |-> 0,
     forecast_requests |-> 0, taf_requests |-> 0, sidebar_error |-> "none",
     location_code |-> None, calls |-> <<>>]

NoFeed == [status |-> "none"]
NoSession == [show_weather_data |-> FALSE]

\* the variables of the other specifications while they are not in use
NoConv == [called |-> FALSE]
NoLookup == [called |-> FALSE]
NoScan == [pc |-> "unused"]
NoBbcOut == [kind |-> "unused"]
NoWind == [stage |-> "unused"]

InitSel ==
    /\ \E flat \in SelFlats : \E cut \in 0..Len(flat) :
          weather_data = Payload(flat, cut)
    /\ target_time \in SelTargets
    /\ sel_out = NotCalled
    /\ now = NoTime
    /\ feed = NoFeed
    /\ airport_widget = <<>>
    /\ utc_widget = <<>>
    /\ session = NoSession
    /\ out = NoOut
    /\ conv = NoConv
    /\ lookup = NoLookup
    /\ scan = NoScan
    /\ bbc_out = NoBbcOut
    /\ wind = NoWind

CallFind ==
    /\ sel_out = NotCalled
    /\ sel_out' = [called |-> TRUE,
                    bbc |-> BbcFindSurrounding(weather_data, target_time)] @@
                  find_surrounding_weather_reports(weather_data, target_time)
    /\ UNCHANGED <<weather_data, target_time, now, feed,
                   airport_widget, utc_widget, session, out,
                   conv, lookup, scan, bbc_out, wind>>

NextSel == CallFind

SpecSel == InitSel /\ [][NextSel]_vars

(***************************************************************************)
(* Strings are sequences of one-character strings.                         *)
(***************************************************************************)
Digits == {"0", "1", "2", "3", "4", "5", "6", "7", "8", "9"}

DigitVal(c) ==
    CASE c = "0" -> 0 [] c = "1" -> 1 [] c = "2" -> 2 [] c = "3" -> 3
      [] c = "4" -> 4 [] c = "5" -> 5 [] c = "6" -> 6 [] c = "7" -> 7
      [] c = "8" -> 8 [] c = "9" -> 9

\* str.upper(), on the letters the bounded inputs use
UpperChar(c) ==
    CASE c = "v" -> "V" [] c = "h" -> "H" [] c = "c" -> "C"
      [] c = "y" -> "Y" [] c = "z" -> "Z" [] c = "x" -> "X"
      [] OTHER -> c

Upper(str) == [i \in 1..Len(str) |-> UpperChar(str[i])]

\* str.strip() is empty exactly when every character is whitespace
StripIsEmpty(str) == \A i \in 1..Len(str) : str[i] = " "

(***************************************************************************)
(* utils.py                                                                *)
(***************************************************************************)
\* airport_codes.json, as load_airport_codes returns it.  UTC_to_LTC is the
\* offset in hours; it is kept here in minutes (8 h, -5 h, 5.5 h).
AirportLookup ==
    << [airport |-> <<"V", "H", "H", "H">>, code |-> "1819729", UTC_to_LTC |-> 480],
       [airport |-> <<"C", "Y", "Y", "Z">>, code |-> "6167865", UTC_to_LTC |-> -300],
       [airport |-> <<"V", "I", "D", "P">>, code |-> "1273294", UTC_to_LTC |-> 330] >>

\* utc_time + timedelta(hours=offset)
convert_utc_to_local(utc_time, offset) == AddMinutes(utc_time, offset)

\* local_time - timedelta(hours=offset)
convert_local_to_utc_MutAdd(local_time, offset) == AddMinutes(local_time, offset)

convert_local_to_utc(local_time, offset) == AddMinutes(local_time, 0 - offset)

(***************************************************************************)
(* weather.py: get_weather_data                                            *)
(***************************************************************************)
\* for entry in airport_lookup: the first entry whose 'airport' equals the code
RECURSIVE LookupFromMutLast(_, _, _)
LookupFromMutLast(airport_lookup, i, airport_code) ==
    IF i > Len(airport_lookup) THEN 0
    ELSE IF LookupFromMutLast(airport_lookup, i + 1, airport_code) > 0
    THEN LookupFromMutLast(airport_lookup, i + 1, airport_code)
    ELSE IF airport_lookup[i].airport = airport_code THEN i
    ELSE 0

RECURSIVE LookupFrom(_, _, _)
LookupFrom(airport_lookup, i, airport_code) ==
    IF i > Len(airport_lookup) THEN 0
    ELSE IF airport_lookup[i].airport = airport_code THEN i
    ELSE LookupFrom(airport_lookup, i + 1, airport_code)

\* lines 9-10: response is what the provider does with the request.  With
\* status "ok" response.json() is the document; with "not_json" the body is not
\* JSON and response.json() raises JSONDecodeError, a subclass of ValueError;
\* with "unreachable" requests.get raises ConnectionError.
Returned(entry, response) ==
    IF response.status = "ok"
    THEN [found |-> TRUE, weather_data |-> response.body,
          utc_offset |-> entry.UTC_to_LTC, location_code |-> entry.code,
          requests |-> 1, raised |-> "none"]
    ELSE [found |-> FALSE, weather_data |-> None,
          utc_offset |-> None, location_code |-> None, requests |-> 1,
          raised |-> IF response.status = "not_json"
                     THEN "JSONDecodeError" ELSE "ConnectionError"]

\* requests counts the HTTP requests issued; found is the truth value of the
\* first element of the triple (line 506 of main.py tests it)
FetchedMutRequestFirst(airport_lookup, i, response) ==
    IF i > 0
    THEN Returned(airport_lookup[i], response)
    ELSE [found |-> FALSE, weather_data |-> None,
          utc_offset |-> None, location_code |-> None, requests |-> 1,
          raised |-> "none"]

Fetched(airport_lookup, i, response) ==
    IF i > 0
    THEN Returned(airport_lookup[i], response)
    ELSE [found |-> FALSE, weather_data |-> None,
          utc_offset |-> None, location_code |-> None, requests |-> 0,
          raised |-> "none"]

get_weather_data(airport_code, airport_lookup, response) ==
    Fetched(airport_lookup, LookupFrom(airport_lookup, 1, airport_code), response)

(***************************************************************************)
(* main.py: the time resolver (lines 488-502)                              *)
(***************************************************************************)
\* re.match(r'^\d{4}$', utc_input)
MatchesHHMM(utc_input) ==
    Len(utc_input) = 4 /\ \A i \in 1..4 : utc_input[i] \in Digits

\* datetime.strptime(utc_input, "%H%M") on four digits: the hour and minute, or
\* ValueError when the hour is above 23 or the minute above 59
Strptime(utc_input) ==
    LET h == 10 * DigitVal(utc_input[1]) + DigitVal(utc_input[2])
        m == 10 * DigitVal(utc_input[3]) + DigitVal(utc_input[4])
    IN  IF h <= 23 /\ m <= 59
        THEN [ok |-> TRUE, hour |-> h, minute |-> m]
        ELSE [ok |-> FALSE, hour |-> 0, minute |-> 0]

\* datetime(now.year, now.month, now.day, input_time.hour, input_time.minute)
Candidate(current_utc_time, input_time) ==
    DateTime(current_utc_time.year, current_utc_time.month, current_utc_time.day,
             input_time.hour, input_time.minute, 0, 0)

\* if target_time < current_utc_time: target_time += timedelta(days=1)
AdvanceMutMinuteLE(candidate, current_utc_time) ==
    IF \/ candidate.hour < current_utc_time.hour
       \/ candidate.hour = current_utc_time.hour
          /\ candidate.minute <= current_utc_time.minute
    THEN AddDays(candidate, 1)
    ELSE candidate

AdvanceMutNever(candidate, current_utc_time) == candidate

AdvanceMutDayPlusOne(candidate, current_utc_time) ==
    IF DtLT(candidate, current_utc_time)
    THEN [candidate EXCEPT !.day = candidate.day + 1]
    ELSE candidate

AdvanceIfPassed(candidate, current_utc_time) ==
    IF DtLT(candidate, current_utc_time) THEN AddDays(candidate, 1) ELSE candidate

ResolveTargetTime(current_utc_time, input_time) ==
    AdvanceIfPassed(Candidate(current_utc_time, input_time), current_utc_time)

(***************************************************************************)
(* main.py: the display step of a script run (lines 483-739)               *)
(***************************************************************************)
ChartWindowMinutes == 180      \* timedelta(hours=3)

\* one row of df per element of all_reports
DfRow(report) ==
    [Time |-> StrfMinute(FromIsoFormat(report.localDate, report.timeslot)),
     Pressure |-> report.pressure,
     Temperature |-> report.temperatureC]

\* previous_reports + [nearest_report] + next_reports
AllReports(sel) == sel.previous_reports \o <<sel.nearest_report>> \o sel.next_reports

\* df[df['Time'] == input_time_str].index[0]
ExactIndex(df, input_time_str) ==
    LET hits == { i \in 1..Len(df) : df[i].Time = input_time_str }
    IN  CHOOSE i \in hits : \A j \in hits : i <= j

\* Series.idxmax(): the first label holding the largest time
IdxMax(df, cands) ==
    CHOOSE i \in cands :
        /\ \A j \in cands : ~DtLT(ParseMinute(df[i].Time), ParseMinute(df[j].Time))
        /\ \A j \in cands : j < i => DtLT(ParseMinute(df[j].Time), ParseMinute(df[i].Time))

\* Series.idxmin(): the first label holding the smallest time
IdxMin(df, cands) ==
    CHOOSE i \in cands :
        /\ \A j \in cands : ~DtLT(ParseMinute(df[j].Time), ParseMinute(df[i].Time))
        /\ \A j \in cands : j < i => DtLT(ParseMinute(df[i].Time), ParseMinute(df[j].Time))

\* lines 576-584: the closest rows before and after the target minute
PrevPart(df, atOrBefore) == IF atOrBefore # {} THEN <<IdxMax(df, atOrBefore)>> ELSE <<>>

NextPart(df, after) == IF after # {} THEN <<IdxMin(df, after)>> ELSE <<>>

CritAround(df, input_time_local) ==
    PrevPart(df, { i \in 1..Len(df) : DtLE(ParseMinute(df[i].Time), input_time_local) })
    \o NextPart(df, { i \in 1..Len(df) : DtLT(input_time_local, ParseMinute(df[i].Time)) })

CritIndices(df, local_time) ==
    CritAround(df, [local_time EXCEPT !.second = 0, !.microsecond = 0])

\* df.loc[crit_indices]['Pressure (hPa)'].min()
MinPressure(df, idxs) ==
    CHOOSE v \in { df[idxs[k]].Pressure : k \in 1..Len(idxs) } :
        \A k \in 1..Len(idxs) : v <= df[idxs[k]].Pressure

\* df.loc[crit_indices]['Temperature (°C)'].max()
MaxTemperature(df, idxs) ==
    CHOOSE v \in { df[idxs[k]].Temperature : k \in 1..Len(idxs) } :
        \A k \in 1..Len(idxs) : v >= df[idxs[k]].Temperature

\* lines 550-573: the row of the exact match
ExactValue(df, idx) ==
    [matched |-> "exact", crit_indices |-> <<idx>>, value_displayed |-> TRUE,
     pressure_value |-> df[idx].Pressure, temperature_value |-> df[idx].Temperature,
     kind |-> "shown"]

\* lines 585-615: the conservative combination, or the out-of-range report
BracketValue(df, crit) ==
    IF crit # <<>>
    THEN [matched |-> "bracketed", crit_indices |-> crit, value_displayed |-> TRUE,
          pressure_value |-> MinPressure(df, crit),
          temperature_value |-> MaxTemperature(df, crit),
          kind |-> "shown"]
    ELSE [matched |-> "none", crit_indices |-> crit, value_displayed |-> FALSE,
          pressure_value |-> 0, temperature_value |-> 0,
          kind |-> IF Len(df) > 0 THEN "out_of_range" ELSE "not_enough_data"]

\* lines 548-615: exact match first, else the closest rows before and after
ResolveValueMutAlwaysBracket(df, local_time) ==
    BracketValue(df, CritIndices(df, local_time))

ResolveValue(df, local_time) ==
    IF \E i \in 1..Len(df) : df[i].Time = StrfMinute(local_time)
    THEN ExactValue(df, ExactIndex(df, StrfMinute(local_time)))
    ELSE BracketValue(df, CritIndices(df, local_time))

\* lines 628-634: the rows of filtered_df, those within 3 hours of the target
ChartRows(df, local_time) ==
    { i \in 1..Len(df) :
        /\ DtLE(AddMinutes(local_time, 0 - ChartWindowMinutes), ParseMinute(df[i].Time))
        /\ DtLE(ParseMinute(df[i].Time), AddMinutes(local_time, ChartWindowMinutes)) }

\* lines 617-647: the TAF is fetched, then filtered_df.loc[crit_indices] raises
\* KeyError when a critical row is not a row of filtered_df
ChartStep(shown, crit, rows) ==
    IF \A k \in 1..Len(crit) : crit[k] \in rows
    THEN [shown EXCEPT !.taf_requests = 1, !.calls = Append(@, "taf")]
    ELSE [shown EXCEPT !.taf_requests = 1, !.calls = Append(@, "taf"),
                       !.exception = "KeyError"]

Shown(base, df, val) ==
    [base EXCEPT !.df = df, !.kind = val.kind, !.matched = val.matched,
                 !.crit_indices = val.crit_indices,
                 !.value_displayed = val.value_displayed,
                 !.pressure_value = val.pressure_value,
                 !.temperature_value = val.temperature_value]

\* lines 608-615 return after the warning; otherwise the charts follow
ShowValue(base, df, val, local_time) ==
    IF ~val.value_displayed
    THEN Shown(base, df, val)
    ELSE ChartStep(Shown(base, df, val), val.crit_indices, ChartRows(df, local_time))

\* lines 532-546: the frame built from all_reports
MakeDf(all_reports) == [i \in 1..Len(all_reports) |-> DfRow(all_reports[i])]

WithSelection(base, sel) ==
    [base EXCEPT !.selected = TRUE,
                 !.previous_reports = sel.previous_reports,
                 !.nearest_report = sel.nearest_report,
                 !.next_reports = sel.next_reports]

ShowFrame(base, df, local_time) ==
    ShowValue(base, df, ResolveValue(df, local_time), local_time)

\* lines 532-539: report['localDate'] on a None nearest_report raises TypeError,
\* which neither except clause catches
ShowSelected(base, sel, local_time) ==
    IF sel.nearest_report = None
    THEN [WithSelection(base, sel) EXCEPT !.kind = "exception", !.exception = "TypeError"]
    ELSE ShowFrame(WithSelection(base, sel), MakeDf(AllReports(sel)), local_time)

\* lines 531-727, once the header is displayed
ShowForecast(base, weather, local_time) ==
    ShowSelected(base, find_surrounding_weather_reports(weather, local_time), local_time)

Resolved(target, got) ==
    [NoOut EXCEPT !.time_resolved = TRUE, !.target_time = target,
                  !.forecast_requests = got.requests, !.utc_offset = got.utc_offset,
                  !.location_code = got.location_code,
                  !.calls = IF got.requests = 1 THEN <<"forecast">> ELSE <<>>]

DisplayLocal(base, weather, local_time) ==
    ShowForecast([base EXCEPT !.local_time = local_time], weather, local_time)

\* lines 504 and 736-737: a ValueError raised by get_weather_data is caught by
\* the handler of the time parsing; any other exception leaves main()
FetchFailed(target, got) ==
    IF got.raised = "JSONDecodeError"
    THEN [Resolved(target, got) EXCEPT !.kind = "invalid_time"]
    ELSE [Resolved(target, got) EXCEPT !.kind = "exception", !.exception = got.raised]

\* lines 504-507 and 734-735
DisplayFetchedMutTafFirst(target, got) ==
    IF got.raised # "none"
    THEN FetchFailed(target, got)
    ELSE IF ~got.found
    THEN [Resolved(target, got) EXCEPT !.kind = "invalid_airport", !.taf_requests = 1,
                                       !.calls = Append(@, "taf")]
    ELSE DisplayLocal(Resolved(target, got), got.weather_data,
                      convert_utc_to_local(target, got.utc_offset))

DisplayFetched(target, got) ==
    IF got.raised # "none"
    THEN FetchFailed(target, got)
    ELSE IF ~got.found
    THEN [Resolved(target, got) EXCEPT !.kind = "invalid_airport"]
    ELSE DisplayLocal(Resolved(target, got), got.weather_data,
                      convert_utc_to_local(target, got.utc_offset))

\* lines 493-504 and 736-737
DisplayParsedMutNoRaise(airport_code, input_time, current_utc_time, response) ==
    DisplayFetched(ResolveTargetTime(current_utc_time, input_time),
                   get_weather_data(airport_code, AirportLookup, response))

DisplayParsed(airport_code, input_time, current_utc_time, response) ==
    IF ~input_time.ok
    THEN [NoOut EXCEPT !.kind = "invalid_time"]
    ELSE DisplayFetched(ResolveTargetTime(current_utc_time, input_time),
                        get_weather_data(airport_code, AirportLookup, response))

\* lines 483-739
Display(airport_code, utc_input, current_utc_time, response) ==
    IF ~(utc_input # <<>> /\ airport_code # <<>>)
    THEN [NoOut EXCEPT !.kind = "enter_both"]
    ELSE IF ~MatchesHHMM(utc_input)
    THEN [NoOut EXCEPT !.kind = "format_warning"]
    ELSE DisplayParsed(airport_code, Strptime(utc_input), current_utc_time, response)

(***************************************************************************)
(* main.py: one run of the Streamlit script, main() (lines 422-739).       *)
(* click is the button pressed in this run: "get", "clear" or "none".      *)
(***************************************************************************)
\* lines 436-447: the keys under which the two text inputs keep their state in
\* st.session_state, f"airport_code_input_{clear_counter}" and
\* f"utc_time_input_{clear_counter}"
WidgetKeys(counter) ==
    { <<"airport_code_input", counter>>, <<"utc_time_input", counter>> }

\* the session after a first run: the defaults of 422-430 and the two widgets
FreshSession(counter) ==
    [show_weather_data |-> FALSE, current_airport_code |-> <<>>,
     current_utc_input |-> <<>>, clear_counter |-> counter,
     widget_keys |-> WidgetKeys(counter)]

\* lines 468-479: every key is deleted, then the four essential ones are set
ClearedSessionMutKeepKeys(sess) ==
    [show_weather_data |-> FALSE, current_airport_code |-> <<>>,
     current_utc_input |-> <<>>, clear_counter |-> sess.clear_counter + 1,
     widget_keys |-> sess.widget_keys]

ClearedSession(sess) ==
    [show_weather_data |-> FALSE, current_airport_code |-> <<>>,
     current_utc_input |-> <<>>, clear_counter |-> sess.clear_counter + 1,
     widget_keys |-> {}]

\* lines 436-447 in the run st.rerun() starts: the inputs are created under
\* the keys of the new counter
RegisterWidgets(sess) ==
    [sess EXCEPT !.widget_keys = @ \cup WidgetKeys(sess.clear_counter)]

\* lines 449-464: track the inputs, then the "Get Weather Data" button
SessionAfterInputsMutAnyClick(sess, airport_code, utc_input, click) ==
    LET tracked == [sess EXCEPT !.current_airport_code = airport_code,
                                !.current_utc_input = utc_input]
    IN  IF click = "get"
        THEN [tracked EXCEPT !.show_weather_data = TRUE]
        ELSE tracked

SessionAfterInputsMutTrackOnClick(sess, airport_code, utc_input, click) ==
    IF click = "get" /\ ~StripIsEmpty(airport_code) /\ ~StripIsEmpty(utc_input)
    THEN [sess EXCEPT !.current_airport_code = airport_code,
                      !.current_utc_input = utc_input,
                      !.show_weather_data = TRUE]
    ELSE sess

SessionAfterInputs(sess, airport_code, utc_input, click) ==
    LET tracked == [sess EXCEPT !.current_airport_code = airport_code,
                                !.current_utc_input = utc_input]
    IN  IF click = "get" /\ ~StripIsEmpty(airport_code) /\ ~StripIsEmpty(utc_input)
        THEN [tracked EXCEPT !.show_weather_data = TRUE]
        ELSE tracked

\* lines 457-461: st.sidebar.error
SidebarError(airport_code, utc_input, click) ==
    IF click # "get" THEN "none"
    ELSE IF StripIsEmpty(airport_code) THEN "Please enter an airport code"
    ELSE IF StripIsEmpty(utc_input) THEN "Please enter a time in UTC"
    ELSE "none"

\* a run in which Clear was not pressed
ScriptRun(airport_text, utc_text, click) ==
    LET airport_code == Upper(airport_text)
        sess == SessionAfterInputs(session, airport_code, utc_text, click)
        err == SidebarError(airport_code, utc_text, click)
    IN  /\ airport_widget' = airport_text
        /\ utc_widget' = utc_text
        /\ session' = sess
        /\ out' = IF sess.show_weather_data
                  THEN [Display(sess.current_airport_code, sess.current_utc_input,
                                now, feed) EXCEPT !.sidebar_error = err]
                  ELSE [NoOut EXCEPT !.sidebar_error = err]
        /\ UNCHANGED <<weather_data, target_time, sel_out, now, feed,
                       conv, lookup, scan, bbc_out, wind>>

(***************************************************************************)
(* SpecMain: the user's edits and clicks, each followed by a script run.   *)
(* A behaviour fixes the instant of its runs and the provider's document.  *)
(***************************************************************************)
MaxFeedLen == 3             \* longest sorted forecast document served to main.py
MaxUnsortedFeedLen == 2     \* longest forecast document in arbitrary order
MaxClears == 1      \* Clear is pressed at most this often

AirportInputs ==
    { <<"v", "h", "h", "h">>, <<"C", "Y", "Y", "Z">>, <<"X", "X", "X", "X">>, <<" ">> }

UtcInputs ==
    { <<"2", "3", "0", "0">>, <<"2", "2", "3", "0">>, <<"2", "2", "0", "0">>,
      <<"0", "0", "0", "0">>, <<"2", "4", "0", "0">>, <<"2", "3", "0">>,
      <<"2", "2", "6", "0">>, <<"2", "2", "a", "0">> }

\* the instant of the runs when the forecast document varies
ValueNow == DateTime(2024, 12, 31, 22, 30, 0, 0)

\* the instants of the runs when the clock varies
TimeNows ==
    { DateTime(d[1], d[2], d[3], c[1], c[2], sec, us) :
        d \in { <<2024, 2, 28>>, <<2024, 2, 29>>, <<2024, 12, 31>>, <<2025, 1, 31>> },
        c \in { <<0, 0>>, <<22, 30>>, <<23, 0>>, <<23, 59>> },
        sec \in {0, 30}, us \in {0, 1} }

\* a forecast sample: one of the three slots, one of two (pressure, temperature) pairs
FeedReport(i, kind) ==
    Report(i, SlotDate, Slots[kind[1]],
           IF kind[2] = 1 THEN 1000 ELSE 1010,
           IF kind[2] = 1 THEN 20 ELSE 25)

FeedKinds == (1..Len(Slots)) \X (1..2)

FeedSeqs(n) == { [i \in 1..n |-> FeedReport(i, f[i])] : f \in [1..n -> FeedKinds] }

\* chronologically sorted documents, and short ones in arbitrary order
FeedFlats ==
    UNION { { flat \in FeedSeqs(n) : IsSorted(flat) } : n \in 0..MaxFeedLen }
    \cup UNION { FeedSeqs(n) : n \in 0..MaxUnsortedFeedLen }

Feed(flat) == [status |-> "ok", body |-> Payload(flat, Len(flat) \div 2)]

TimeFeed == Feed(<<FeedReport(1, <<2, 1>>)>>)

\* a document whose two samples are eight hours apart
SparseFeed ==
    Feed(<<Report(1, SlotDate, <<2, 0>>, 1000, 20), Report(2, SlotDate, <<10, 0>>, 1010, 25)>>)

\* the provider answers with a body that is not JSON, or cannot be reached
NotJsonFeed == [status |-> "not_json", body |-> None]
UnreachableFeed == [status |-> "unreachable", body |-> None]

InitMain ==
    /\ \/ now = ValueNow /\ \E flat \in FeedFlats : feed = Feed(flat)
       \/ now \in TimeNows /\ feed = TimeFeed
       \/ now = ValueNow /\ feed = SparseFeed
       \/ now = ValueNow /\ feed \in {NotJsonFeed, UnreachableFeed}
    /\ airport_widget = <<>>
    /\ utc_widget = <<>>
    /\ session = FreshSession(0)
    /\ out = NoOut
    /\ weather_data = Payload(<<>>, 0)
    /\ target_time = NoTime
    /\ sel_out = NotCalled
    /\ conv = NoConv
    /\ lookup = NoLookup
    /\ scan = NoScan
    /\ bbc_out = NoBbcOut
    /\ wind = NoWind

EditAirport ==
    \E text \in AirportInputs \cup {<<>>} :
        /\ text # airport_widget
        /\ ScriptRun(text, utc_widget, "none")

EditUtc ==
    \E text \in UtcInputs \cup {<<>>} :
        /\ text # utc_widget
        /\ ScriptRun(airport_widget, text, "none")

ClickGet == ScriptRun(airport_widget, utc_widget, "get")

\* lines 466-480: the session is wiped, the counter re-keys both widgets (they
\* come back empty) and st.rerun() runs the script again, which renders nothing
ClickClear ==
    /\ session.clear_counter < MaxClears
    /\ session' = RegisterWidgets(ClearedSession(session))
    /\ airport_widget' = <<>>
    /\ utc_widget' = <<>>
    /\ out' = NoOut
    /\ UNCHANGED <<weather_data, target_time, sel_out, now, feed,
                   conv, lookup, scan, bbc_out, wind>>

NextMain == EditAirport \/ EditUtc \/ ClickGet \/ ClickClear

SpecMain == InitMain /\ [][NextMain]_vars

(***************************************************************************)
(* Get_BBC_wx.py: the standalone script.                                   *)
(***************************************************************************)
\* datetime(year, month, day, hour, minute): ValueError when the day is not a
\* day of the month
MakeDateTime(y, mo, d, h, mi) ==
    IF d \in 1..DaysInMonth(y, mo)
    THEN [ok |-> TRUE, value |-> DateTime(y, mo, d, h, mi, 0, 0)]
    ELSE [ok |-> FALSE, value |-> NoTime]

\* lines 147-149: "Input time has already passed today"
BbcPassed(input_time, current_utc_time) ==
    \/ input_time.hour < current_utc_time.hour
    \/ input_time.hour = current_utc_time.hour
       /\ input_time.minute <= current_utc_time.minute

\* lines 147-155
BbcTargetTime(current_utc_time, input_time) ==
    IF BbcPassed(input_time, current_utc_time)
    THEN MakeDateTime(current_utc_time.year, current_utc_time.month,
                      current_utc_time.day + 1, input_time.hour, input_time.minute)
    ELSE MakeDateTime(current_utc_time.year, current_utc_time.month,
                      current_utc_time.day, input_time.hour, input_time.minute)

\* max(a, b)
PyMax(a, b) == IF b > a THEN b ELSE a

\* lines 209-214: the row of the exact match
BbcExactValue(df, idx) ==
    [matched |-> "exact", crit_indices |-> <<>>, value_displayed |-> TRUE,
     pressure_value |-> df[idx].Pressure, temperature_value |-> df[idx].Temperature,
     kind |-> "shown"]

\* lines 215-228: the higher value of the two neighbours, or the out-of-range report
BbcBracketValue(df, previous_reports, next_reports) ==
    IF previous_reports # <<>> /\ next_reports # <<>>
    THEN [matched |-> "bracketed", crit_indices |-> <<>>, value_displayed |-> TRUE,
          pressure_value |-> PyMax(previous_reports[Len(previous_reports)].pressure,
                                   next_reports[1].pressure),
          temperature_value |-> PyMax(previous_reports[Len(previous_reports)].temperatureC,
                                      next_reports[1].temperatureC),
          kind |-> "shown"]
    ELSE [matched |-> "none", crit_indices |-> <<>>, value_displayed |-> FALSE,
          pressure_value |-> 0, temperature_value |-> 0,
          kind |-> IF Len(df) > 0 THEN "out_of_range" ELSE "not_enough_data"]

\* lines 207-228
BbcResolveValue(df, sel, local_time) ==
    IF \E i \in 1..Len(df) : df[i].Time = StrfMinute(local_time)
    THEN BbcExactValue(df, ExactIndex(df, StrfMinute(local_time)))
    ELSE BbcBracketValue(df, sel.previous_reports, sel.next_reports)

\* lines 201-203: the TAF is fetched before the value is resolved
BbcShowFrame(base, df, sel, local_time) ==
    [Shown(base, df, BbcResolveValue(df, sel, local_time)) EXCEPT
        !.taf_requests = 1, !.calls = Append(@, "taf")]

\* lines 180-189: report['localDate'] on a None nearest_report raises TypeError
BbcShowSelected(base, sel, local_time) ==
    IF sel.nearest_report = None
    THEN [WithSelection(base, sel) EXCEPT !.kind = "exception", !.exception = "TypeError"]
    ELSE BbcShowFrame(WithSelection(base, sel), MakeDf(AllReports(sel)), sel, local_time)

BbcDisplayLocal(base, weather, local_time) ==
    BbcShowSelected([base EXCEPT !.local_time = local_time],
                    BbcFindSurrounding(weather, local_time), local_time)

\* lines 157-161 and 285-286
BbcDisplayFetched(target, got) ==
    IF got.raised # "none"
    THEN FetchFailed(target, got)
    ELSE IF ~got.found
    THEN [Resolved(target, got) EXCEPT !.kind = "invalid_airport"]
    ELSE BbcDisplayLocal(Resolved(target, got), got.weather_data,
                         convert_utc_to_local(target, got.utc_offset))

\* lines 150-157 and 287-288: a ValueError of datetime() is reported like one
\* of strptime
BbcDisplayTarget(airport_code, target, response) ==
    IF ~target.ok
    THEN [NoOut EXCEPT !.kind = "invalid_time"]
    ELSE BbcDisplayFetched(target.value,
                           get_weather_data(airport_code, AirportLookup, response))

\* lines 139-155 and 287-288
BbcDisplayParsed(airport_code, input_time, current_utc_time, response) ==
    IF ~input_time.ok
    THEN [NoOut EXCEPT !.kind = "invalid_time"]
    ELSE BbcDisplayTarget(airport_code, BbcTargetTime(current_utc_time, input_time),
                          response)

\* lines 133-288: the body of the button's if
BbcDisplay(airport_code, utc_input, current_utc_time, response) ==
    IF ~(utc_input # <<>> /\ airport_code # <<>>)
    THEN NoOut
    ELSE IF ~MatchesHHMM(utc_input)
    THEN [NoOut EXCEPT !.kind = "format_warning"]
    ELSE BbcDisplayParsed(airport_code, Strptime(utc_input), current_utc_time, response)

(***************************************************************************)
(* SpecBBC: the user's edits and clicks on the standalone script.  A run   *)
(* renders the dashboard only when the button was pressed in it.           *)
(***************************************************************************)
InitBBC ==
    /\ \/ now = ValueNow /\ \E flat \in FeedFlats : feed = Feed(flat)
       \/ now \in TimeNows /\ feed = TimeFeed
    /\ airport_widget = <<>>
    /\ utc_widget = <<>>
    /\ bbc_out = NoOut
    /\ wind = NoWind
    /\ session = NoSession
    /\ out = NoOut
    /\ weather_data = Payload(<<>>, 0)
    /\ target_time = NoTime
    /\ sel_out = NotCalled
    /\ conv = NoConv
    /\ lookup = NoLookup
    /\ scan = NoScan

BbcOthersUnchanged ==
    UNCHANGED <<weather_data, target_time, sel_out, now, feed, session, out,
                conv, lookup, scan, wind>>

BbcEditAirport ==
    \E text \in AirportInputs \cup {<<>>} :
        /\ text # airport_widget
        /\ airport_widget' = text
        /\ bbc_out' = NoOut
        /\ UNCHANGED utc_widget
        /\ BbcOthersUnchanged

BbcEditUtc ==
    \E text \in UtcInputs \cup {<<>>} :
        /\ text # utc_widget
        /\ utc_widget' = text
        /\ bbc_out' = NoOut
        /\ UNCHANGED airport_widget
        /\ BbcOthersUnchanged

BbcClickGet ==
    /\ bbc_out' = BbcDisplay(Upper(airport_widget), utc_widget, now, feed)
    /\ UNCHANGED <<airport_widget, utc_widget>>
    /\ BbcOthersUnchanged

NextBBC == BbcEditAirport \/ BbcEditUtc \/ BbcClickGet

SpecBBC == InitBBC /\ [][NextBBC]_vars

(***************************************************************************)
(* SpecConv: the two conversions of utils.py applied to bounded instants   *)
(* and offsets.  An offset is UTC_to_LTC hours, kept in minutes.           *)
(***************************************************************************)
ConvInstants ==
    { DateTime(d[1], d[2], d[3], c[1], c[2], sec, us) :
        d \in { <<2024, 2, 29>>, <<2024, 3, 1>>, <<2024, 12, 31>>, <<2025, 1, 1>> },
        c \in { <<0, 0>>, <<0, 29>>, <<12, 0>>, <<23, 45>> },
        sec \in {0, 59}, us \in {0, 999999} }

\* -12 h, -9.5 h, -5 h, -1 minute, 0, 1 minute, 5.5 h, 5.75 h, 8 h, 12.75 h, 14 h
ConvOffsets == {-720, -570, -300, -1, 0, 1, 330, 345, 480, 765, 840}

InitConv ==
    /\ \E I \in ConvInstants : \E O \in ConvOffsets :
          conv = [called |-> FALSE, instant |-> I, offset |-> O]
    /\ weather_data = Payload(<<>>, 0)
    /\ target_time = NoTime
    /\ sel_out = NotCalled
    /\ now = NoTime
    /\ feed = NoFeed
    /\ airport_widget = <<>>
    /\ utc_widget = <<>>
    /\ session = NoSession
    /\ out = NoOut
    /\ lookup = NoLookup
    /\ scan = NoScan
    /\ bbc_out = NoBbcOut
    /\ wind = NoWind

\* local = convert_utc_to_local(I, O); back = convert_local_to_utc(local, O)
Converted(I, O, local) ==
    [called |-> TRUE, instant |-> I, offset |-> O, local |-> local,
     back |-> convert_local_to_utc(local, O)]

CallConvert ==
    /\ ~conv.called
    /\ conv' = Converted(conv.instant, conv.offset,
                         convert_utc_to_local(conv.instant, conv.offset))
    /\ UNCHANGED <<weather_data, target_time, sel_out, now, feed,
                   airport_widget, utc_widget, session, out, lookup, scan, bbc_out, wind>>

NextConv == CallConvert

SpecConv == InitConv /\ [][NextConv]_vars

\* a datetime Python can hold: the fields are in range for the calendar
ValidDateTime(dt) ==
    /\ dt.month \in 1..12 /\ dt.day \in 1..DaysInMonth(dt.year, dt.month)
    /\ dt.hour \in 0..23 /\ dt.minute \in 0..59
    /\ dt.second \in 0..59 /\ dt.microsecond \in 0..999999

\* C13: converting an instant to local time and back with the same offset
\* gives the instant again, and the local time is the instant plus the offset:
\* a valid datetime, offset minutes later on the time line, with the instant's
\* seconds and microseconds.
C13_OffsetRoundTrip ==
    conv.called =>
        /\ conv.back = conv.instant
        /\ ValidDateTime(conv.local)
        /\ MinuteStamp(conv.local) = MinuteStamp(conv.instant) + conv.offset
        /\ SubMinute(conv.local) = SubMinute(conv.instant)

\* a negative fractional offset (-9.5 h) that takes 00:29 on January 1 back to
\* 14:59 on December 31 of the year before
C13_Witness ==
    /\ conv.called
    /\ conv.offset = -570
    /\ conv.instant.year = 2025 /\ conv.instant.month = 1 /\ conv.instant.day = 1
    /\ conv.local.year = 2024 /\ conv.local.month = 12 /\ conv.local.day = 31
    /\ conv.local.hour = 14 /\ conv.local.minute = 59
    /\ conv.back = conv.instant

(***************************************************************************)
(* SpecLookup: get_weather_data applied to bounded lookup tables, which    *)
(* may carry an airport code more than once, and to bounded codes.         *)
(***************************************************************************)
MaxTableLen == 3        \* longest lookup table

TableEntries ==
    { [airport |-> a, code |-> c, UTC_to_LTC |-> o] :
        a \in { <<"V", "H", "H", "H">>, <<"C", "Y", "Y", "Z">> },
        c \in { "1819729", "6167865" },
        o \in { 480, -300 } }

Tables == UNION { [1..n -> TableEntries] : n \in 0..MaxTableLen }

\* a code of the table, one in another case, a prefix of one, and a foreign one
LookupCodes ==
    { <<"V", "H", "H", "H">>, <<"C", "Y", "Y", "Z">>, <<"v", "h", "h", "h">>,
      <<"V", "H", "H">>, <<"X", "X", "X", "X">> }

InitLookup ==
    /\ \E t \in Tables : \E c \in LookupCodes :
          lookup = [called |-> FALSE, airport_lookup |-> t, airport_code |-> c]
    /\ feed = TimeFeed
    /\ weather_data = Payload(<<>>, 0)
    /\ target_time = NoTime
    /\ sel_out = NotCalled
    /\ now = NoTime
    /\ airport_widget = <<>>
    /\ utc_widget = <<>>
    /\ session = NoSession
    /\ out = NoOut
    /\ conv = NoConv
    /\ scan = NoScan
    /\ bbc_out = NoBbcOut
    /\ wind = NoWind

CallGetWeatherData ==
    /\ ~lookup.called
    /\ lookup' = [lookup EXCEPT !.called = TRUE] @@
                  [result |-> get_weather_data(lookup.airport_code, lookup.airport_lookup,
                                               feed)]
    /\ UNCHANGED <<weather_data, target_time, sel_out, now, feed,
                   airport_widget, utc_widget, session, out, conv, scan, bbc_out, wind>>

NextLookup == CallGetWeatherData

SpecLookup == InitLookup /\ [][NextLookup]_vars

\* the positions of the table whose airport code equals the code looked up
Hits == { i \in 1..Len(lookup.airport_lookup) :
            lookup.airport_lookup[i].airport = lookup.airport_code }

FirstHit == CHOOSE i \in Hits : \A j \in Hits : i <= j

\* C14: the call finds an entry exactly when some entry's airport code equals
\* the code; it then requests and returns the location code and the offset
\* of the first such entry in table order, whatever later entries hold.
C14_FirstMatchWins ==
    lookup.called =>
        /\ lookup.result.found <=> Hits # {}
        /\ Hits # {} =>
              /\ lookup.result.location_code = lookup.airport_lookup[FirstHit].code
              /\ lookup.result.utc_offset = lookup.airport_lookup[FirstHit].UTC_to_LTC
              /\ lookup.result.weather_data = feed.body
              /\ lookup.result.requests = 1

\* the code is held by two entries that differ in location code and offset,
\* after an entry for another airport
C14_Witness ==
    /\ lookup.called
    /\ Cardinality(Hits) = 2
    /\ FirstHit = 2
    /\ \E j \in Hits :
          /\ lookup.airport_lookup[j].code # lookup.airport_lookup[FirstHit].code
          /\ lookup.airport_lookup[j].UTC_to_LTC # lookup.airport_lookup[FirstHit].UTC_to_LTC
    /\ lookup.result.location_code = lookup.airport_lookup[2].code

(***************************************************************************)
(* The selector's claims, over SpecSel.                                    *)
(***************************************************************************)
Ids(seq) == { seq[i].id : i \in 1..Len(seq) }

\* the payload's reports strictly before / at or after the target, in payload order
IsBefore(r) == DtLT(ReportTime(r), target_time)
IsAtOrAfter(r) == ~DtLT(ReportTime(r), target_time)
BeforeSamples == SelectSeq(Flatten(weather_data), IsBefore)
AtOrAfterSamples == SelectSeq(Flatten(weather_data), IsAtOrAfter)

Min2(a, b) == IF a <= b THEN a ELSE b

\* C1: previous holds at most 5 samples, all strictly before the target; next
\* holds at most 5 samples, all at or after it; a sample whose time equals the
\* target is never in previous; the two lists share no sample; when both are
\* non-empty every previous sample is before the target and every next sample
\* is not (max(previous) < T <= min(next)).
C1_WindowPartition ==
    sel_out.called =>
        LET prev == sel_out.previous_reports
            next == sel_out.next_reports
        IN  /\ Len(prev) <= 5
            /\ Len(next) <= 5
            /\ \A i \in 1..Len(prev) : DtLT(ReportTime(prev[i]), target_time)
            /\ \A i \in 1..Len(next) : DtLE(target_time, ReportTime(next[i]))
            /\ \A i \in 1..Len(prev) : ReportTime(prev[i]) # target_time
            /\ Ids(prev) \cap Ids(next) = {}
            /\ (prev # <<>> /\ next # <<>>) =>
                  \A i \in 1..Len(prev) : \A j \in 1..Len(next) :
                      /\ DtLT(ReportTime(prev[i]), target_time)
                      /\ DtLE(target_time, ReportTime(next[j]))
                      /\ DtLT(ReportTime(prev[i]), ReportTime(next[j]))

\* both lists full, with two samples on the target's own minute among next
C1_Witness ==
    /\ sel_out.called
    /\ Len(sel_out.previous_reports) = 5
    /\ Len(sel_out.next_reports) = 5
    /\ Cardinality({ i \in 1..Len(sel_out.next_reports) :
                        ReportTime(sel_out.next_reports[i]) = target_time }) >= 2

\* C2: on a chronologically sorted payload with k samples strictly before the
\* target, previous is exactly the last min(5, k) of them, in payload order.
C2_PreviousIsLastFive ==
    (sel_out.called /\ IsSorted(Flatten(weather_data))) =>
        LET k == Len(BeforeSamples)
            n == Min2(5, k)
            prev == sel_out.previous_reports
        IN  /\ Len(prev) = n
            /\ \A j \in 1..n : prev[j] = BeforeSamples[k - n + j]

\* a sorted payload with more than 5 antecedents, some sample after the target
C2_Witness ==
    /\ sel_out.called
    /\ IsSorted(Flatten(weather_data))
    /\ Len(BeforeSamples) > 5
    /\ Len(sel_out.previous_reports) = 5
    /\ sel_out.previous_reports[1].id # 1
    /\ AtOrAfterSamples # <<>>

\* C3: with m samples at or after the target, next is the first min(5, m) of
\* them in payload order and nearest_report is next's first element, or None
\* when m = 0 (an empty payload gives ([], None, [])).
C3_NextIsFirstFive ==
    sel_out.called =>
        LET m == Len(AtOrAfterSamples)
            n == Min2(5, m)
            next == sel_out.next_reports
        IN  /\ Len(next) = n
            /\ \A j \in 1..n : next[j] = AtOrAfterSamples[j]
            /\ (m > 0) => sel_out.nearest_report = next[1]
            /\ (m = 0) => sel_out.nearest_report = None /\ next = <<>>
            /\ (Flatten(weather_data) = <<>>) =>
                  /\ sel_out.previous_reports = <<>>
                  /\ sel_out.nearest_report = None
                  /\ next = <<>>

\* an unsorted payload with more than 5 samples at or after the target
C3_Witness ==
    /\ sel_out.called
    /\ Len(AtOrAfterSamples) > 5
    /\ ~IsSorted(Flatten(weather_data))
    /\ sel_out.nearest_report # None

\* the reference selector: every sample is classified, nothing ends the scan
\* early, and the two lists are truncated afterwards
RECURSIVE ScanAll(_, _, _, _)
ScanAll(flat, i, st, target) ==
    IF i > Len(flat) THEN st
    ELSE ScanAll(flat, i + 1, Collect(st, flat[i], target), target)

ReferenceSelect(data, target) == Truncate(ScanAll(Flatten(data), 1, SelStart, target))

\* C4: on a chronologically sorted payload the selector returns what the
\* reference selector (full scan, then truncation) returns.
C4_EarlyExitHarmless ==
    (sel_out.called /\ IsSorted(Flatten(weather_data))) =>
        LET ref == ReferenceSelect(weather_data, target_time)
        IN  /\ sel_out.previous_reports = ref.previous_reports
            /\ sel_out.nearest_report = ref.nearest_report
            /\ sel_out.next_reports = ref.next_reports

\* the early exit was taken with samples left unscanned, in a sorted payload
C4_Witness ==
    /\ sel_out.called
    /\ IsSorted(Flatten(weather_data))
    /\ Len(AtOrAfterSamples) > 5
    /\ Len(BeforeSamples) > 5
    /\ Len(sel_out.next_reports) = 5

(***************************************************************************)
(* The claims about main.py's value resolution, over SpecMain.             *)
(***************************************************************************)
Max2(a, b) == IF a >= b THEN a ELSE b

\* the samples the selector handed to the run, previous then next
Selected == out.previous_reports \o out.next_reports

\* the sample's minute is the target local minute
OnTargetMinute(r) == StrfMinute(ReportTime(r)) = StrfMinute(out.local_time)

ExactMatchSelected == out.selected /\ \E i \in 1..Len(Selected) : OnTargetMinute(Selected[i])

\* C5: when a selected sample is on the target local minute, the pressure and
\* temperature displayed are both the values of one such sample.
C5_ExactMatchPrecedence ==
    ExactMatchSelected =>
        /\ out.value_displayed
        /\ out.matched = "exact"
        /\ \E i \in 1..Len(Selected) :
              /\ OnTargetMinute(Selected[i])
              /\ out.pressure_value = Selected[i].pressure
              /\ out.temperature_value = Selected[i].temperatureC

\* an exact match between two neighbours, the earlier one warmer than the match
C5_Witness ==
    /\ ExactMatchSelected
    /\ out.value_displayed
    /\ out.previous_reports # <<>>
    /\ Len(out.next_reports) >= 2
    /\ out.previous_reports[Len(out.previous_reports)].temperatureC > out.temperature_value

\* C6 (as claimed): with no exact match and both lists non-empty, on a sorted
\* document, the displayed pair is (min(P1, P2), max(T1, T2)) of previous[-1]
\* and next[0], also when several samples share a timestamp.
C6_BracketUsesLastPrevious ==
    ( /\ out.selected
      /\ out.value_displayed
      /\ ~ExactMatchSelected
      /\ out.previous_reports # <<>>
      /\ out.next_reports # <<>>
      /\ IsSorted(Flatten(feed.body)) ) =>
        LET last == out.previous_reports[Len(out.previous_reports)]
            first == out.next_reports[1]
        IN  /\ out.pressure_value = Min2(last.pressure, first.pressure)
            /\ out.temperature_value = Max2(last.temperatureC, first.temperatureC)

\* C7 (as claimed): a target before every sample (previous empty, next not, no
\* exact match) ends in the out-of-range warning with no value displayed.
C7_BeforeCoverageIsOutOfRange ==
    ( /\ out.selected
      /\ out.previous_reports = <<>>
      /\ out.next_reports # <<>>
      /\ ~ExactMatchSelected ) =>
        /\ out.kind = "out_of_range"
        /\ ~out.value_displayed

\* C8 (as claimed): when the selector returns no nearest report the run ends in
\* the out-of-range / not-enough-data report and raises nothing.
C8_NoNearestIsOutOfRange ==
    (out.selected /\ out.nearest_report = None) =>
        /\ out.kind \in {"out_of_range", "not_enough_data"}
        /\ out.exception = "none"

(***************************************************************************)
(* The claims about main.py's time resolver, over SpecMain.                *)
(***************************************************************************)
\* the hour and minute the user entered, for a run that resolved a target
Entered == Strptime(session.current_utc_input)

SameDate(a, b) == a.year = b.year /\ a.month = b.month /\ a.day = b.day

EnteredBeforeNowClock ==
    \/ Entered.hour < now.hour
    \/ Entered.hour = now.hour /\ Entered.minute < now.minute

EnteredEqualsNowClock == Entered.hour = now.hour /\ Entered.minute = now.minute

\* C9 (as claimed): the target is on the following calendar day whenever the
\* entered hour:minute is earlier than or equal to now's hour:minute, whatever
\* now's seconds, and on the current UTC date otherwise.
C9_EqualMinuteAlwaysAdvances ==
    out.time_resolved =>
        IF EnteredBeforeNowClock \/ EnteredEqualsNowClock
        THEN SameDate(out.target_time, NextDay(now))
        ELSE SameDate(out.target_time, now)

\* C9 (amended): the target is on the following calendar day exactly when the
\* entered hour:minute is earlier than now's hour:minute, or equal to it while
\* now's seconds and microseconds are not both zero; otherwise it is on the
\* current UTC date.
C9_AdvancesWhenStrictlyPassed ==
    out.time_resolved =>
        IF \/ EnteredBeforeNowClock
           \/ EnteredEqualsNowClock /\ (now.second > 0 \/ now.microsecond > 0)
        THEN SameDate(out.target_time, NextDay(now))
        ELSE SameDate(out.target_time, now)

\* the entered minute is now's minute, now is exactly on the minute, and the
\* target stays on today's date
C9_Witness ==
    /\ out.time_resolved
    /\ EnteredEqualsNowClock
    /\ now.second = 0 /\ now.microsecond = 0
    /\ SameDate(out.target_time, now)
    /\ out.target_time.hour = now.hour

\* C10: the target is never earlier than now, never more than 24 hours after
\* it, and carries the entered hour and minute.
C10_NextOccurrenceWithinADay ==
    out.time_resolved =>
        /\ ~DtLT(out.target_time, now)
        /\ MinuteStamp(out.target_time) - MinuteStamp(now) <= 1440
        /\ out.target_time.second = 0 /\ out.target_time.microsecond = 0
        /\ out.target_time.hour = Entered.hour
        /\ out.target_time.minute = Entered.minute

\* one microsecond past the entered minute on December 31: the target is the
\* same minute of January 1, just under 24 hours away
C10_Witness ==
    /\ out.time_resolved
    /\ EnteredEqualsNowClock
    /\ now.second = 0 /\ now.microsecond = 1
    /\ now.month = 12 /\ now.day = 31
    /\ out.target_time.month = 1 /\ out.target_time.day = 1
    /\ MinuteStamp(out.target_time) - MinuteStamp(now) = 1440

\* the run's target is not on now's date: the resolver advanced it
Advanced == out.time_resolved /\ ~SameDate(out.target_time, now)

LastDayOfMonth(dt) == dt.day = DaysInMonth(dt.year, dt.month)

\* C11: when the resolver advances the date, the target is the entered clock
\* time on the calendar day after now's: the next day of the same month, or
\* the 1st of the following month (of January of the following year on
\* December 31) when now is on the last day of a month.
C11_AdvanceIsNextCalendarDay ==
    Advanced =>
        LET t == out.target_time
        IN  /\ t.hour = Entered.hour /\ t.minute = Entered.minute
            /\ t.second = 0 /\ t.microsecond = 0
            /\ t.month \in 1..12 /\ t.day \in 1..DaysInMonth(t.year, t.month)
            /\ ToOrdinal(t.year, t.month, t.day) = ToOrdinal(now.year, now.month, now.day) + 1
            /\ ~LastDayOfMonth(now) =>
                  t.day = now.day + 1 /\ t.month = now.month /\ t.year = now.year
            /\ (LastDayOfMonth(now) /\ now.month < 12) =>
                  t.day = 1 /\ t.month = now.month + 1 /\ t.year = now.year
            /\ (LastDayOfMonth(now) /\ now.month = 12) =>
                  t.day = 1 /\ t.month = 1 /\ t.year = now.year + 1

\* advanced on the leap day: the target is on March 1
C11_Witness ==
    /\ Advanced
    /\ now.month = 2 /\ now.day = 29
    /\ out.target_time.month = 3 /\ out.target_time.day = 1
    /\ out.target_time.hour = 22 /\ out.target_time.minute = 0

(***************************************************************************)
(* The claims about main.py's error outcomes, over SpecMain.               *)
(***************************************************************************)
\* the display section of the last run was executed with this time text
Requested == session.show_weather_data

FourDigits(text) == Len(text) = 4 /\ \A i \in 1..Len(text) : text[i] \in Digits

HourPart(text) == 10 * DigitVal(text[1]) + DigitVal(text[2])

MinutePart(text) == 10 * DigitVal(text[3]) + DigitVal(text[4])

\* not exactly four digits, or an hour above 23, or a minute above 59
InvalidTimeText(text) ==
    ~FourDigits(text) \/ HourPart(text) > 23 \/ MinutePart(text) > 59

TimeFormatMessage == out.kind \in {"format_warning", "invalid_time"}

\* C12 (as claimed): every run whose time text is not four digits, or has an
\* hour above 23 or a minute above 59, ends with a time-format message, with
\* no target resolved and no value displayed.
C12_InvalidTimeAlwaysReported ==
    (Requested /\ InvalidTimeText(session.current_utc_input)) =>
        /\ TimeFormatMessage
        /\ ~out.time_resolved
        /\ ~out.value_displayed

\* C12 (amended): with both texts non-empty, a time text that is not four
\* digits ends with the format warning and one with an hour above 23 or a
\* minute above 59 with the invalid-time-format error; with an invalid time
\* text no target is ever resolved, no value displayed and no request issued.
C12_InvalidTimeReportedWhenBothEntered ==
    (Requested /\ InvalidTimeText(session.current_utc_input)) =>
        /\ ~out.time_resolved
        /\ ~out.value_displayed
        /\ out.forecast_requests = 0
        /\ (session.current_utc_input # <<>> /\ session.current_airport_code # <<>>) =>
              out.kind = IF FourDigits(session.current_utc_input)
                         THEN "invalid_time" ELSE "format_warning"

\* four digits with minute 60, for a known airport: the invalid-time error
C12_Witness ==
    /\ Requested
    /\ session.current_utc_input = <<"2", "2", "6", "0">>
    /\ session.current_airport_code = <<"V", "H", "H", "H">>
    /\ out.kind = "invalid_time"
    /\ ~out.time_resolved

(***************************************************************************)
(* SpecScan: find_surrounding_weather_reports of weather.py run statement  *)
(* by statement, several calls in a row on the same payload and target.    *)
(* scan holds the position in the two loops (pc, g, i), the locals (st),   *)
(* the ids of the samples the current call has examined, in order, the     *)
(* number of steps it has taken, and what the finished calls returned.     *)
(***************************************************************************)
MaxScanLen == 6     \* most samples in a payload that is scanned step by step
CallsMade == 2      \* calls made on the same payload and target

ScanTarget == DateTime(2025, 1, 1, 7, 0, 0, 0)

\* three forecast groups: the first a reports, the next b - a, then the rest
ScanPayload(flat, a, b) ==
    [forecasts |-> <<Group(SubSeq(flat, 1, a)), Group(SubSeq(flat, a + 1, b)),
                     Group(SubSeq(flat, b + 1, Len(flat)))>>,
     location |-> [name |-> "Airport"],
     lastUpdated |-> "Z"]

NoGroups == [forecasts |-> <<>>, location |-> [name |-> "Airport"], lastUpdated |-> "Z"]

\* samples at 06:00 (before the target) or 07:00 (on it), in any order
ScanFlats ==
    UNION { { [i \in 1..n |-> SelReport(i, f[i])] : f \in [1..n -> 1..2] } :
            n \in 0..MaxScanLen }

InitScan ==
    /\ \E flat \in ScanFlats :
          \/ \E a \in 0..Len(flat) : \E b \in a..Len(flat) :
                weather_data = ScanPayload(flat, a, b)
          \/ flat = <<>> /\ weather_data = NoGroups
    /\ target_time = ScanTarget
    /\ scan = [pc |-> "idle", g |-> 0, i |-> 0, st |-> SelStart, examined |-> <<>>,
               steps |-> 0, results |-> <<>>, given |-> weather_data]
    /\ sel_out = NotCalled
    /\ now = NoTime
    /\ feed = NoFeed
    /\ airport_widget = <<>>
    /\ utc_widget = <<>>
    /\ session = NoSession
    /\ out = NoOut
    /\ conv = NoConv
    /\ lookup = NoLookup
    /\ bbc_out = NoBbcOut
    /\ wind = NoWind

\* lines 19-21: the call binds fresh locals
ScanBeginMutKeepLocals(sc) ==
    [sc EXCEPT !.pc = "outer", !.g = 1, !.i = 0, !.examined = <<>>, !.steps = 1]

ScanBegin(sc) ==
    [sc EXCEPT !.pc = "outer", !.g = 1, !.i = 0, !.st = SelStart,
               !.examined = <<>>, !.steps = 1]

\* lines 24-37: one iteration of the inner loop, st1 the locals after lines 24-34
ScanExaminedMutNoBreak(sc, st1, id) ==
    [sc EXCEPT !.st = st1, !.examined = Append(@, id), !.steps = @ + 1, !.i = @ + 1]

ScanExamined(sc, st1, id) ==
    IF LimitReached(st1)
    THEN [sc EXCEPT !.st = st1, !.examined = Append(@, id), !.steps = @ + 1,
                    !.pc = "outer_test"]
    ELSE [sc EXCEPT !.st = st1, !.examined = Append(@, id), !.steps = @ + 1,
                    !.i = @ + 1]

\* lines 39-40: the test after the inner loop
ScanOuterTest(sc) ==
    IF LimitReached(sc.st)
    THEN [sc EXCEPT !.pc = "return", !.steps = @ + 1]
    ELSE [sc EXCEPT !.pc = "outer", !.g = @ + 1, !.steps = @ + 1]

\* lines 42-45
ScanReturn(sc) ==
    [sc EXCEPT !.pc = "idle", !.steps = @ + 1,
               !.results = Append(@, Truncate(sc.st))]

ScanOthersUnchanged ==
    UNCHANGED <<sel_out, now, feed, airport_widget, utc_widget, session, out,
                conv, lookup, bbc_out, wind>>

\* the statements of the function never assign to the payload or the target
ScanStep(sc) ==
    /\ scan' = sc
    /\ UNCHANGED <<weather_data, target_time>>
    /\ ScanOthersUnchanged

BeginCall ==
    /\ scan.pc = "idle"
    /\ Len(scan.results) < CallsMade
    /\ ScanStep(ScanBegin(scan))

\* line 23: the outer loop takes the next group
EnterGroup ==
    /\ scan.pc = "outer"
    /\ scan.g <= Len(weather_data.forecasts)
    /\ ScanStep([scan EXCEPT !.pc = "inner", !.i = 1, !.steps = @ + 1])

\* line 23: the outer loop is exhausted
ExitLoop ==
    /\ scan.pc = "outer"
    /\ scan.g > Len(weather_data.forecasts)
    /\ ScanStep([scan EXCEPT !.pc = "return", !.steps = @ + 1])

\* lines 24-37: the inner loop takes the next report
Examine ==
    /\ scan.pc = "inner"
    /\ scan.i <= Len(weather_data.forecasts[scan.g].detailed.reports)
    /\ ScanStep(ScanExamined(scan,
                 Collect(scan.st, weather_data.forecasts[scan.g].detailed.reports[scan.i],
                         target_time),
                 weather_data.forecasts[scan.g].detailed.reports[scan.i].id))

\* line 24: the inner loop is exhausted
EndGroup ==
    /\ scan.pc = "inner"
    /\ scan.i > Len(weather_data.forecasts[scan.g].detailed.reports)
    /\ ScanStep([scan EXCEPT !.pc = "outer_test", !.steps = @ + 1])

OuterTest ==
    /\ scan.pc = "outer_test"
    /\ ScanStep(ScanOuterTest(scan))

Return ==
    /\ scan.pc = "return"
    /\ ScanStep(ScanReturn(scan))

NextScan ==
    BeginCall \/ EnterGroup \/ ExitLoop \/ Examine \/ EndGroup \/ OuterTest \/ Return

SpecScan == InitScan /\ [][NextScan]_vars

\* C16: the calls made on the same payload and target all return the same
\* (previous, nearest, next), and no step of a call changes the payload.
C16_CallsArePure ==
    scan.pc # "unused" =>
        /\ weather_data = scan.given
        /\ \A j \in 1..Len(scan.results) : \A k \in 1..Len(scan.results) :
              scan.results[j] = scan.results[k]

\* two calls have returned, with samples in both lists and next cut off at 5
C16_Witness ==
    /\ scan.pc = "idle"
    /\ Len(scan.results) >= 2
    /\ scan.results[1].previous_reports # <<>>
    /\ Len(scan.results[1].next_reports) = 5
    /\ scan.results[2].nearest_report = scan.results[1].next_reports[1]

\* the position in the payload of the sample that makes next reach 5 elements
LimitPosition == AtOrAfterSamples[WindowLimit].id

AllCallsReturned == scan.pc = "idle" /\ Len(scan.results) = CallsMade

\* C17: a call examines the payload's samples in payload order, each at most
\* once and none after the sample that made next reach 5 elements; it takes at
\* most one step per sample and three per group besides the call and the
\* return, and until the last call has returned some step can be taken.
C17_SinglePassStopsAtLimit ==
    scan.pc # "unused" =>
        /\ Len(scan.examined) <= Len(Flatten(weather_data))
        /\ \A k \in 1..Len(scan.examined) :
              scan.examined[k] = Flatten(weather_data)[k].id
        /\ \A j \in 1..Len(scan.examined) : \A k \in 1..Len(scan.examined) :
              j # k => scan.examined[j] # scan.examined[k]
        /\ Len(AtOrAfterSamples) >= WindowLimit => Len(scan.examined) <= LimitPosition
        /\ scan.steps <= Len(Flatten(weather_data)) + 3 * Len(weather_data.forecasts) + 3
        /\ AllCallsReturned \/ ENABLED NextScan

\* a call has returned after the limit was reached in the second group, behind
\* an empty first group, leaving the third group's sample unexamined
C17_Witness ==
    /\ scan.pc = "idle"
    /\ Len(scan.results) >= 1
    /\ Len(weather_data.forecasts) = 3
    /\ weather_data.forecasts[1].detailed.reports = <<>>
    /\ weather_data.forecasts[3].detailed.reports # <<>>
    /\ Len(AtOrAfterSamples) > WindowLimit
    /\ Len(scan.examined) = LimitPosition
    /\ Len(scan.examined) = Len(weather_data.forecasts[2].detailed.reports)

\* no entry of the lookup table carries the run's airport code
UnknownAirport ==
    \A i \in 1..Len(AirportLookup) :
        AirportLookup[i].airport # session.current_airport_code

\* C15: a run with a valid time and an airport code absent from the table gets
\* the no-match triple from get_weather_data (no offset, no location code, no
\* HTTP request, nothing raised), reports 'Invalid airport code' and goes no
\* further: no selection, no TAF request, no value displayed.
C15_UnknownAirportReported ==
    ( /\ Requested
      /\ session.current_airport_code # <<>>
      /\ ~InvalidTimeText(session.current_utc_input)
      /\ UnknownAirport ) =>
        /\ out.kind = "invalid_airport"
        /\ out.exception = "none"
        /\ out.forecast_requests = 0
        /\ out.utc_offset = None
        /\ out.location_code = None
        /\ out.taf_requests = 0
        /\ ~out.selected
        /\ ~out.value_displayed

\* XXXX with a valid time: the target is resolved, then the error is reported
C15_Witness ==
    /\ Requested
    /\ session.current_airport_code = <<"X", "X", "X", "X">>
    /\ out.time_resolved
    /\ out.kind = "invalid_airport"
    /\ out.forecast_requests = 0

\* C18 (as claimed): whenever a value has been resolved, every critical row is
\* a row of the frame filtered to 3 hours around the target, and the lookup of
\* the critical rows in that frame raises nothing.
C18_CriticalPointsAreChartRows ==
    out.value_displayed =>
        /\ \A k \in 1..Len(out.crit_indices) :
              out.crit_indices[k] \in ChartRows(out.df, out.local_time)
        /\ out.exception # "KeyError"

\* C21 (as claimed): the 'Invalid time format' error is the outcome of a run
\* only when its time text fails the HHMM parsing; a failure of the forecast
\* fetch or of its decoding is never reported that way.
C21_InvalidTimeOnlyForBadTime ==
    (Requested /\ out.kind = "invalid_time") =>
        /\ InvalidTimeText(session.current_utc_input)
        /\ out.forecast_requests = 0

InCalls(name) == \E k \in 1..Len(out.calls) : out.calls[k] = name

C26_SelectorsAgree ==
    sel_out.called =>
        /\ sel_out.bbc.previous_reports = sel_out.previous_reports
        /\ sel_out.bbc.nearest_report = sel_out.nearest_report
        /\ sel_out.bbc.next_reports = sel_out.next_reports

\* both selectors stopped at the fifth report at or after the target, in the
\* first group, with a report before the target left unexamined behind it
C26_Witness ==
    /\ sel_out.called
    /\ Len(sel_out.bbc.next_reports) = WindowLimit
    /\ Len(weather_data.forecasts[1].detailed.reports) = WindowLimit + 1
    /\ IsBefore(weather_data.forecasts[1].detailed.reports[WindowLimit + 1])
    /\ sel_out.bbc.previous_reports = <<>>
    /\ sel_out.previous_reports = <<>>

(***************************************************************************)
(* The claims about main.py's session state, over SpecMain.                *)
(***************************************************************************)
SessionKeys ==
    {"show_weather_data", "current_airport_code", "current_utc_input", "clear_counter",
     "widget_keys"}

\* C23: a Clear click leaves show_weather_data False, both tracked inputs
\* empty and clear_counter one greater than before; no key the session held
\* before the click is left besides these four (the inputs of the following
\* run are kept under the keys of the new counter); and only a Clear click
\* changes clear_counter.
C23_ClearResetsSession ==
    [][ /\ ClickClear =>
              /\ session'.show_weather_data = FALSE
              /\ session'.current_airport_code = <<>>
              /\ session'.current_utc_input = <<>>
              /\ session'.clear_counter = session.clear_counter + 1
              /\ DOMAIN session' = SessionKeys
              /\ session'.widget_keys \cap session.widget_keys = {}
              /\ \A key \in session'.widget_keys : key[2] = session'.clear_counter
              /\ airport_widget' = <<>> /\ utc_widget' = <<>>
        /\ session'.clear_counter >= session.clear_counter
        /\ session'.clear_counter # session.clear_counter => ClickClear
      ]_vars

\* cleared once, back to an empty form under the keys of counter 1
C23_Witness ==
    /\ session.clear_counter = 1
    /\ ~session.show_weather_data
    /\ session.current_airport_code = <<>>
    /\ session.widget_keys = WidgetKeys(1)
    /\ airport_widget = <<>> /\ utc_widget = <<>>
    /\ out = NoOut

\* empty, or nothing but whitespace
Blank(text) == \A i \in 1..Len(text) : text[i] = " "

BothEntered == ~Blank(airport_widget) /\ ~Blank(utc_widget)

\* C24: show_weather_data becomes True only in a Get click with both inputs
\* non-blank, and becomes False only in a Clear click; a Get click with a
\* blank input shows a sidebar error and leaves the flag as it was.
C24_ShownOnlyAfterValidGet ==
    [][ /\ (~session.show_weather_data /\ session'.show_weather_data) =>
              ClickGet /\ BothEntered
        /\ (session.show_weather_data /\ ~session'.show_weather_data) => ClickClear
        /\ (ClickGet /\ ~BothEntered) =>
              /\ session'.show_weather_data = session.show_weather_data
              /\ out'.sidebar_error # "none"
        /\ (ClickGet /\ BothEntered) =>
              /\ session'.show_weather_data
              /\ out'.sidebar_error = "none"
      ]_vars

\* display was enabled, then Get was clicked with a whitespace airport code:
\* the sidebar error is shown and the flag is still True
C24_Witness ==
    /\ session.show_weather_data
    /\ airport_widget = <<" ">>
    /\ out.sidebar_error = "Please enter an airport code"

\* C25: after every run the tracked airport code is the airport input
\* upper-cased and the tracked time is the time input, and when display is
\* enabled what is rendered is the display of exactly these two values,
\* whether the run was started by a click or by an edit.
C25_DisplayUsesCurrentInputs ==
    /\ session.current_airport_code = Upper(airport_widget)
    /\ session.current_utc_input = utc_widget
    /\ Requested =>
          [out EXCEPT !.sidebar_error = "none"]
              = Display(Upper(airport_widget), utc_widget, now, feed)
    /\ ~Requested => [out EXCEPT !.sidebar_error = "none"] = NoOut

\* display enabled and a value shown for a lower-case airport input at 23:00
C25_Witness ==
    /\ Requested
    /\ airport_widget = <<"v", "h", "h", "h">>
    /\ utc_widget = <<"2", "3", "0", "0">>
    /\ session.current_airport_code = <<"V", "H", "H", "H">>
    /\ out.kind = "shown"
    /\ out.location_code = "1819729"
    /\ out.sidebar_error = "none"

(***************************************************************************)
(* The claims about the standalone script, over SpecBBC.                   *)
(***************************************************************************)
BbcSelected == bbc_out.previous_reports \o bbc_out.next_reports

BbcOnTargetMinute(r) == StrfMinute(ReportTime(r)) = StrfMinute(bbc_out.local_time)

\* C19 (as claimed): when no selected sample is on the target minute and both
\* lists are non-empty, the standalone script displays the lower of the
\* pressures and the higher of the temperatures of previous[-1] and next[0].
C19_StandaloneBracketIsMinMax ==
    ( /\ bbc_out.selected
      /\ ~\E i \in 1..Len(BbcSelected) : BbcOnTargetMinute(BbcSelected[i])
      /\ bbc_out.previous_reports # <<>>
      /\ bbc_out.next_reports # <<>> ) =>
        LET last == bbc_out.previous_reports[Len(bbc_out.previous_reports)]
            first == bbc_out.next_reports[1]
        IN  /\ bbc_out.value_displayed
            /\ bbc_out.pressure_value = Min2(last.pressure, first.pressure)
            /\ bbc_out.temperature_value = Max2(last.temperatureC, first.temperatureC)

\* the button was pressed with an airport code and a valid HHMM time
BbcValidRequest ==
    /\ bbc_out.kind # "none"
    /\ ~InvalidTimeText(utc_widget)

BbcEntered == Strptime(utc_widget)

\* C20 (as claimed): a valid HHMM is never reported as an invalid time format,
\* and one whose hour:minute is earlier than or equal to now's resolves to the
\* same clock time on the calendar day after now's, on every date.
C20_StandaloneAdvancesOnEveryDate ==
    BbcValidRequest =>
        /\ bbc_out.kind # "invalid_time"
        /\ ( \/ BbcEntered.hour < now.hour
             \/ BbcEntered.hour = now.hour /\ BbcEntered.minute <= now.minute ) =>
              /\ bbc_out.time_resolved
              /\ SameDate(bbc_out.target_time, NextDay(now))
              /\ bbc_out.target_time.hour = BbcEntered.hour
              /\ bbc_out.target_time.minute = BbcEntered.minute

(***************************************************************************)
(* main.py: the wind input of display_preferential_runway_section, the     *)
(* wind column of display_runway_table and format_wind_component.          *)
(* A wind component is kept in tenths of a knot, the unit to which         *)
(* calculate_wind_components rounds (round(x, 1)); an int object of Python *)
(* is IntObj(n), so that it can be told from None.                         *)
(***************************************************************************)
IntObj(n) == [value |-> n]

\* the character U+00B2: str.isdigit() is True of it and int() rejects it
SuperscriptTwo == "^2"

\* str.isdigit() on one character of the bounded inputs
IsDigitChar(c) == c \in Digits \cup {SuperscriptTwo}

RECURSIVE DigitsValue(_)
DigitsValue(str) ==
    IF str = <<>> THEN 0
    ELSE 10 * DigitsValue(SubSeq(str, 1, Len(str) - 1)) + DigitVal(str[Len(str)])

\* int(str) on characters of which isdigit() is True: ValueError unless every
\* one is a decimal digit
PyInt(str) ==
    IF \A i \in 1..Len(str) : str[i] \in Digits
    THEN [ok |-> TRUE, value |-> DigitsValue(str)]
    ELSE [ok |-> FALSE, value |-> 0]

NoMessage == [level |-> "none", text |-> "none"]

WindRejected(text) ==
    [wind_direction |-> None, wind_speed |-> None,
     message |-> [level |-> "warning", text |-> text]]

\* lines 104-115: the body of the try, on the results of the two int() calls
ParsedWindMutDir360(direction, speed) ==
    IF ~direction.ok \/ ~speed.ok
    THEN WindRejected("Invalid wind format. Use DDDSS format (e.g., 27015)")
    ELSE IF 0 <= direction.value /\ direction.value <= 360
            /\ 0 <= speed.value /\ speed.value <= 99
    THEN [wind_direction |-> IntObj(direction.value), wind_speed |-> IntObj(speed.value),
          message |-> [level |-> "success", text |-> "Wind"]]
    ELSE WindRejected("Invalid wind values. Direction: 000-359, Speed: 00-99kt")

ParsedWind(direction, speed) ==
    IF ~direction.ok \/ ~speed.ok
    THEN WindRejected("Invalid wind format. Use DDDSS format (e.g., 27015)")
    ELSE IF 0 <= direction.value /\ direction.value <= 359
            /\ 0 <= speed.value /\ speed.value <= 99
    THEN [wind_direction |-> IntObj(direction.value), wind_speed |-> IntObj(speed.value),
          message |-> [level |-> "success", text |-> "Wind"]]
    ELSE WindRejected("Invalid wind values. Direction: 000-359, Speed: 00-99kt")

\* lines 99-118
ParseWindInput(wind_input) ==
    IF wind_input # <<>> /\ Len(wind_input) = 5
       /\ \A i \in 1..Len(wind_input) : IsDigitChar(wind_input[i])
    THEN ParsedWind(PyInt(SubSeq(wind_input, 1, 3)), PyInt(SubSeq(wind_input, 4, 5)))
    ELSE IF wind_input # <<>> /\ ~StripIsEmpty(wind_input)
    THEN WindRejected("Invalid format. Use 5-digit DDDSS format")
    ELSE [wind_direction |-> None, wind_speed |-> None, message |-> NoMessage]

\* line 162
has_wind_data(wind_direction, wind_speed) ==
    wind_direction # None /\ wind_speed # None

\* `if magnetic_direction:` on runway.get('magnetic_direction', ''); a missing
\* direction is None here
Truthy(magnetic_direction) ==
    IF magnetic_direction = None THEN FALSE ELSE magnetic_direction.value # 0

\* lines 292-300 and 326-331: what the wind column of one runway's row holds
WindCell(magnetic_direction, wind_direction, wind_speed) ==
    IF has_wind_data(wind_direction, wind_speed) /\ Truthy(magnetic_direction)
    THEN "components"
    ELSE IF has_wind_data(wind_direction, wind_speed) THEN "-"
    ELSE "no column"

Abs(n) == IF n < 0 THEN -n ELSE n

DigitSeq == <<"0", "1", "2", "3", "4", "5", "6", "7", "8", "9">>

RECURSIVE DecimalChars(_)
DecimalChars(n) ==
    IF n < 10 THEN <<DigitSeq[n + 1]>>
    ELSE Append(DecimalChars(n \div 10), DigitSeq[(n % 10) + 1])

\* f"{x:.1f}" of a non-negative x given in tenths
FormatTenths(n) == DecimalChars(n \div 10) \o <<".", DigitSeq[(n % 10) + 1]>>

\* the returned string: text, inside the red bold <span> when red
Plain(text) == [text |-> text, red |-> FALSE]
Red(text) == [text |-> text, red |-> TRUE]

\* lines 40-63, value in tenths of a knot: 0.1 is 1, 30 is 300, 10 is 100
format_wind_componentMutCrossGE(value, component_type) ==
    IF component_type = "crosswind"
    THEN IF Abs(value) < 1 THEN Plain(<<"0", ".", "0", "C">>)
         ELSE IF Abs(value) >= 300 THEN Red(Append(FormatTenths(Abs(value)), "C"))
         ELSE Plain(Append(FormatTenths(Abs(value)), "C"))
    ELSE IF Abs(value) < 1 THEN Plain(<<"0", ".", "0", "H">>)
         ELSE IF value > 0 THEN Plain(Append(FormatTenths(value), "H"))
         ELSE IF Abs(value) >= 100 THEN Red(Append(FormatTenths(Abs(value)), "T"))
         ELSE Plain(Append(FormatTenths(Abs(value)), "T"))

format_wind_component(value, component_type) ==
    IF component_type = "crosswind"
    THEN IF Abs(value) < 1 THEN Plain(<<"0", ".", "0", "C">>)
         ELSE IF Abs(value) > 300 THEN Red(Append(FormatTenths(Abs(value)), "C"))
         ELSE Plain(Append(FormatTenths(Abs(value)), "C"))
    ELSE IF Abs(value) < 1 THEN Plain(<<"0", ".", "0", "H">>)
         ELSE IF value > 0 THEN Plain(Append(FormatTenths(value), "H"))
         ELSE IF Abs(value) >= 100 THEN Red(Append(FormatTenths(Abs(value)), "T"))
         ELSE Plain(Append(FormatTenths(Abs(value)), "T"))

(***************************************************************************)
(* SpecWind: the wind input is parsed and the runway table drawn for       *)
(* bounded wind texts, and format_wind_component is applied to bounded     *)
(* components.                                                             *)
(***************************************************************************)
WindInputs ==
    { <<>>, <<" ">>, <<" ", " ", " ", " ", " ">>,
      <<"2", "7", "0", "1", "5">>, <<"0", "0", "0", "0", "0">>,
      <<"3", "5", "9", "9", "9">>, <<"3", "6", "0", "1", "5">>,
      <<"9", "9", "9", "0", "0">>,
      <<"2", "7", "0", "1">>, <<"2", "7", "0", "1", "5", "5">>,
      <<"2", "7", "a", "1", "5">>, <<"2", "7", " ", "1", "5">>,
      <<"2", "7", "0", "1", "5", " ">>, <<"-", "2", "7", "1", "5">>,
      <<"2", "7", "0", "1", SuperscriptTwo>>, <<SuperscriptTwo, "7", "0", "1", "5">> }

\* magnetic_direction of a runway of runways.json: missing, 0, 70, 250
MagneticDirections == { None, IntObj(0), IntObj(70), IntObj(250) }

\* tenths of a knot, around 0, 10 kt and 30 kt, and the largest of a 99 kt wind
ComponentValues ==
    { 0, 1, -1, 5, -5, 99, -99, 100, -100, 101, -101,
      299, -299, 300, -300, 301, -301, 990, -990 }

ComponentTypes == { "crosswind", "headwind" }

NoFormatted == [text |-> <<>>, red |-> FALSE]

InitWind ==
    /\ \E text \in WindInputs : \E md \in MagneticDirections :
       \E v \in ComponentValues : \E t \in ComponentTypes :
          wind = [stage |-> "input", wind_input |-> text, magnetic_direction |-> md,
                  wind_direction |-> None, wind_speed |-> None, message |-> NoMessage,
                  cell |-> "none",
                  value |-> v, component_type |-> t, formatted |-> NoFormatted]
    /\ weather_data = Payload(<<>>, 0)
    /\ target_time = NoTime
    /\ sel_out = NotCalled
    /\ now = NoTime
    /\ feed = NoFeed
    /\ airport_widget = <<>>
    /\ utc_widget = <<>>
    /\ session = NoSession
    /\ out = NoOut
    /\ conv = NoConv
    /\ lookup = NoLookup
    /\ scan = NoScan
    /\ bbc_out = NoBbcOut

WindOthersUnchanged ==
    UNCHANGED <<weather_data, target_time, sel_out, now, feed, airport_widget,
                utc_widget, session, out, conv, lookup, scan, bbc_out>>

WindParsed(w, parsed) ==
    [w EXCEPT !.stage = "parsed",
              !.wind_direction = parsed.wind_direction,
              !.wind_speed = parsed.wind_speed,
              !.message = parsed.message]

\* lines 93-118
EnterWind ==
    /\ wind.stage = "input"
    /\ wind' = WindParsed(wind, ParseWindInput(wind.wind_input))
    /\ WindOthersUnchanged

\* lines 136-146: display_runway_table receives the two parsed values
DrawRunwayTable ==
    /\ wind.stage = "parsed"
    /\ wind' = [wind EXCEPT !.stage = "table",
                            !.cell = WindCell(wind.magnetic_direction,
                                              wind.wind_direction, wind.wind_speed)]
    /\ WindOthersUnchanged

\* lines 294-295: one component is formatted
FormatComponent ==
    /\ wind.formatted = NoFormatted
    /\ wind' = [wind EXCEPT !.formatted =
                    format_wind_component(wind.value, wind.component_type)]
    /\ WindOthersUnchanged

NextWind == EnterWind \/ DrawRunwayTable \/ FormatComponent

SpecWind == InitWind /\ [][NextWind]_vars

(***************************************************************************)
(* The claims about the wind input and the wind components, over SpecWind. *)
(***************************************************************************)
\* exactly five decimal digits whose first three are a direction 000..359
AcceptedWind(text) ==
    /\ Len(text) = 5
    /\ \A i \in 1..5 : text[i] \in Digits
    /\ 100 * DigitVal(text[1]) + 10 * DigitVal(text[2]) + DigitVal(text[3]) <= 359

WindParsedOrLater == wind.stage \in {"parsed", "table"}

\* C27: the wind column holds components only when the wind input is five
\* digits whose first three are a direction 000..359 (every two-digit speed
\* is accepted); every other non-blank input gets a warning and leaves
\* wind_direction and wind_speed both None; the two are both set or both None
\* when display_runway_table receives them.
C27_WindAcceptedOnlyWhenValid ==
    /\ (WindParsedOrLater /\ AcceptedWind(wind.wind_input)) =>
          /\ wind.wind_direction =
                IntObj(100 * DigitVal(wind.wind_input[1])
                       + 10 * DigitVal(wind.wind_input[2]) + DigitVal(wind.wind_input[3]))
          /\ wind.wind_speed =
                IntObj(10 * DigitVal(wind.wind_input[4]) + DigitVal(wind.wind_input[5]))
          /\ wind.message.level = "success"
    /\ (WindParsedOrLater /\ ~AcceptedWind(wind.wind_input) /\ ~Blank(wind.wind_input)) =>
          /\ wind.message.level = "warning"
          /\ wind.wind_direction = None
          /\ wind.wind_speed = None
    /\ WindParsedOrLater => ((wind.wind_direction = None) <=> (wind.wind_speed = None))
    /\ (wind.stage = "table" /\ wind.cell = "components") => AcceptedWind(wind.wind_input)
    /\ (wind.stage = "table" /\ ~AcceptedWind(wind.wind_input)) => wind.cell = "no column"

\* 35999 was entered and the components of a runway of direction 250 computed
C27_Witness ==
    /\ wind.stage = "table"
    /\ wind.wind_input = <<"3", "5", "9", "9", "9">>
    /\ wind.wind_direction = IntObj(359)
    /\ wind.wind_speed = IntObj(99)
    /\ wind.magnetic_direction = IntObj(250)
    /\ wind.cell = "components"

\* the tenths a text "<digits>.<digit>" denotes, or -1 when it is not of that
\* form
TenthsOf(text) ==
    IF /\ Len(text) >= 3
       /\ text[Len(text) - 1] = "."
       /\ text[Len(text)] \in Digits
       /\ \A i \in 1..(Len(text) - 2) : text[i] \in Digits
       /\ (Len(text) > 3 => text[1] # "0")
    THEN 10 * DigitsValue(SubSeq(text, 1, Len(text) - 2)) + DigitVal(text[Len(text)])
    ELSE -1

Formatted == wind.formatted # NoFormatted

Number(text) == SubSeq(text, 1, Len(text) - 1)
Suffix(text) == text[Len(text)]

====
